---- MODULE Spec2Model ----
(***************************************************************************)
(* StrChunk::extract_utf8 (src/src/chunk.rs): carving validated UTF-8      *)
(* chunks out of a growable byte buffer as bytes stream in.                *)
(*                                                                         *)
(* A byte is a number in 0..255, a buffer is a sequence of bytes.  The     *)
(* model follows the code: str::from_utf8 is the standard library's        *)
(* table-driven validator (width of the lead byte, admissible range of the *)
(* second byte, continuation test for the rest), BytesMut::take and        *)
(* BytesMut::split_to cut the buffer.  The properties are stated against   *)
(* the definition of UTF-8 by bit patterns (decode the code point, reject  *)
(* overlong forms, surrogates and values above 10FFFF), which is written   *)
(* separately below and shares nothing with the validator.                 *)
(***************************************************************************)
EXTENDS Integers, Sequences, FiniteSets, TLC

VARIABLES
    src,        \* the caller's BytesMut
    op,         \* the last operation: "new", "append", "extract", "skip"
    pre,        \* the buffer as it was before the last operation
    res,        \* what extract_utf8 returned, when the last operation was a call
    target,     \* resumable feed: the text being streamed in
    fed,        \* resumable feed: how many bytes of target were appended
    emitted,    \* resumable feed: the chunks extracted so far, concatenated
    cuts,       \* resumable feed: value of fed at each extract_utf8 call
    erred,      \* feed and skip loop: whether some call returned Err
    pc          \* skip loop: "idle", "call", "skip", "done", "panic"

vars == <<src, op, pre, res, target, fed, emitted, cuts, erred, pc>>

feed == <<target, fed, emitted, cuts, erred>>

(***************************************************************************)
(* Bounds.                                                                 *)
(***************************************************************************)
MaxLen == 4

MaxCalls == 3

(***************************************************************************)
(* The bytes the model feeds: one or two of every class the validator      *)
(* tells apart.                                                            *)
(*   41      ASCII                                                         *)
(*   80, A0  continuation bytes, below and above the A0 / 90 thresholds    *)
(*   C0      never a lead byte (overlong two-byte form)                    *)
(*   C2      lead of a two-byte sequence                                   *)
(*   E0      lead of three, second byte restricted to A0..BF               *)
(*   E2      lead of three, second byte any continuation                   *)
(*   ED      lead of three, second byte restricted to 80..9F (surrogates)  *)
(*   F0      lead of four, second byte restricted to 90..BF                *)
(*   F4      lead of four, second byte restricted to 80..8F                *)
(***************************************************************************)
ByteSet == {\h41, \h80, \hA0, \hC0, \hC2, \hE0, \hE2, \hED, \hF0, \hF4}

RECURSIVE SeqsUpTo(_, _)
SeqsUpTo(S, n) ==
    IF n = 0 THEN {<<>>}
    ELSE LET shorter == SeqsUpTo(S, n - 1)
         IN  shorter \cup {Append(s, b) : s \in {t \in shorter : Len(t) = n - 1}, b \in S}

Min(a, b) == IF a < b THEN a ELSE b

(***************************************************************************)
(* Option<T>.                                                              *)
(***************************************************************************)
None == [some |-> FALSE]

Some(x) == [some |-> TRUE, val |-> x]

(***************************************************************************)
(* str::from_utf8, as the standard library computes it.                    *)
(***************************************************************************)
\* slip: C0 and C1 taken for leads of two-byte sequences
utf8_char_width_FromC0(b) ==
    IF b < \h80 THEN 1
    ELSE IF b >= \hC0 /\ b <= \hDF THEN 2
    ELSE IF b >= \hE0 /\ b <= \hEF THEN 3
    ELSE IF b >= \hF0 /\ b <= \hF4 THEN 4
    ELSE 0

utf8_char_width(b) ==
    IF b < \h80 THEN 1
    ELSE IF b >= \hC2 /\ b <= \hDF THEN 2
    ELSE IF b >= \hE0 /\ b <= \hEF THEN 3
    ELSE IF b >= \hF0 /\ b <= \hF4 THEN 4
    ELSE 0

\* `next!() as i8 >= -64`: the byte is not a continuation byte
NotContinuation(b) == ~(b >= \h80 /\ b <= \hBF)

\* slip: the surrogate range is not excluded after ED
SecondOfThreeOk_Surrogates(first, second) ==
    \/ first = \hE0 /\ second >= \hA0 /\ second <= \hBF
    \/ first >= \hE1 /\ first <= \hEF /\ second >= \h80 /\ second <= \hBF

SecondOfThreeOk(first, second) ==
    \/ first = \hE0 /\ second >= \hA0 /\ second <= \hBF
    \/ first >= \hE1 /\ first <= \hEC /\ second >= \h80 /\ second <= \hBF
    \/ first = \hED /\ second >= \h80 /\ second <= \h9F
    \/ first >= \hEE /\ first <= \hEF /\ second >= \h80 /\ second <= \hBF

SecondOfFourOk(first, second) ==
    \/ first = \hF0 /\ second >= \h90 /\ second <= \hBF
    \/ first >= \hF1 /\ first <= \hF3 /\ second >= \h80 /\ second <= \hBF
    \/ first = \hF4 /\ second >= \h80 /\ second <= \h8F

Utf8Ok == [ok |-> TRUE]

Utf8Error(valid_up_to, error_len) ==
    [ok |-> FALSE, valid_up_to |-> valid_up_to, error_len |-> error_len]

\* The validation loop from the 1-based position index of a lead byte; the
\* bytes before it are valid, so an error there has valid_up_to = index - 1.
\* next!() fails with error_len None when the buffer ends.
RECURSIVE run_utf8_validation(_, _)
run_utf8_validation(v, index) ==
    IF index > Len(v) THEN Utf8Ok
    ELSE
    LET first == v[index]
        w     == utf8_char_width(first)
        has(k) == index + k <= Len(v)
        at(k)  == v[index + k]
        err(e) == Utf8Error(index - 1, e)
    IN  IF first < \h80 THEN run_utf8_validation(v, index + 1)
        ELSE IF w = 2 THEN
            IF ~has(1) THEN err(None)
            ELSE IF NotContinuation(at(1)) THEN err(Some(1))
            ELSE run_utf8_validation(v, index + 2)
        ELSE IF w = 3 THEN
            IF ~has(1) THEN err(None)
            ELSE IF ~SecondOfThreeOk(first, at(1)) THEN err(Some(1))
            ELSE IF ~has(2) THEN err(None)
            ELSE IF NotContinuation(at(2)) THEN err(Some(2))
            ELSE run_utf8_validation(v, index + 3)
        ELSE IF w = 4 THEN
            IF ~has(1) THEN err(None)
            ELSE IF ~SecondOfFourOk(first, at(1)) THEN err(Some(1))
            ELSE IF ~has(2) THEN err(None)
            ELSE IF NotContinuation(at(2)) THEN err(Some(2))
            ELSE IF ~has(3) THEN err(None)
            ELSE IF NotContinuation(at(3)) THEN err(Some(3))
            ELSE run_utf8_validation(v, index + 4)
        ELSE err(Some(1))

\* slip: a sequence cut short by the end of the input is reported as invalid
from_utf8_EndIsError(v) ==
    LET r == run_utf8_validation(v, 1)
    IN  IF r.ok \/ r.error_len.some THEN r ELSE Utf8Error(r.valid_up_to, Some(1))

from_utf8(v) == run_utf8_validation(v, 1)

(***************************************************************************)
(* BytesMut::take and BytesMut::split_to: what is handed out and what the  *)
(* buffer keeps.                                                           *)
(***************************************************************************)
\* slip: the contents are copied out and the buffer is not emptied
take_Copies(s) == [out |-> s, keep |-> s]

take(s) == [out |-> s, keep |-> <<>>]

\* slip: the prefix is copied out and not removed
split_to_Copies(s, at) == [out |-> SubSeq(s, 1, at), keep |-> s]

\* slip: the cut falls one byte early
split_to_OneShort(s, at) == [out |-> SubSeq(s, 1, at - 1), keep |-> SubSeq(s, at, Len(s))]

split_to(s, at) == [out |-> SubSeq(s, 1, at), keep |-> SubSeq(s, at + 1, Len(s))]

(***************************************************************************)
(* StrChunk::extract_utf8.  ret is the returned value, src the buffer      *)
(* after the call.  A StrChunk is its bytes.                               *)
(***************************************************************************)
RetOk(extracted) == [tag |-> "Ok", extracted |-> extracted]

RetErr(extracted, error_len) ==
    [tag |-> "Err", extracted |-> extracted, error_len |-> error_len]

\* slip: the malformed bytes are removed from the buffer along with the prefix
extract_utf8_DropsMalformed(s) ==
    LET r == from_utf8(s)
    IN  IF r.ok
        THEN [ret |-> RetOk(Some(s)), src |-> <<>>]
        ELSE LET valid_len == r.valid_up_to
                 extracted == IF valid_len = 0 THEN None ELSE Some(SubSeq(s, 1, valid_len))
             IN  IF ~r.error_len.some
                 THEN [ret |-> RetOk(extracted), src |-> SubSeq(s, valid_len + 1, Len(s))]
                 ELSE [ret |-> RetErr(extracted, r.error_len.val),
                       src |-> SubSeq(s, valid_len + r.error_len.val + 1, Len(s))]

\* slip: an incomplete tail is thrown away with the drained buffer
extract_utf8_DropsTail(s) ==
    LET r == from_utf8(s)
    IN  IF r.ok
        THEN [ret |-> RetOk(Some(s)), src |-> <<>>]
        ELSE LET valid_len == r.valid_up_to
                 extracted == IF valid_len = 0 THEN None ELSE Some(SubSeq(s, 1, valid_len))
             IN  IF ~r.error_len.some
                 THEN [ret |-> RetOk(extracted), src |-> <<>>]
                 ELSE [ret |-> RetErr(extracted, r.error_len.val),
                       src |-> SubSeq(s, valid_len + 1, Len(s))]

\* slip: error_len counts the bytes after the first malformed one
extract_utf8_ErrLenShort(s) ==
    LET r == from_utf8(s)
    IN  IF r.ok
        THEN [ret |-> RetOk(Some(s)), src |-> <<>>]
        ELSE LET valid_len == r.valid_up_to
                 extracted == IF valid_len = 0 THEN None ELSE Some(SubSeq(s, 1, valid_len))
             IN  IF ~r.error_len.some
                 THEN [ret |-> RetOk(extracted), src |-> SubSeq(s, valid_len + 1, Len(s))]
                 ELSE [ret |-> RetErr(extracted, r.error_len.val - 1),
                       src |-> SubSeq(s, valid_len + 1, Len(s))]

extract_utf8(s) ==
    LET r == from_utf8(s)
    IN  IF r.ok
        THEN LET t == take(s)
             IN  [ret |-> RetOk(Some(t.out)), src |-> t.keep]
        ELSE LET valid_len == r.valid_up_to
                 cut       == split_to(s, valid_len)
                 extracted == IF valid_len = 0 THEN None ELSE Some(cut.out)
                 rest      == IF valid_len = 0 THEN s ELSE cut.keep
             IN  IF ~r.error_len.some
                 THEN [ret |-> RetOk(extracted), src |-> rest]
                 ELSE [ret |-> RetErr(extracted, r.error_len.val), src |-> rest]

\* ExtractUtf8Error::into_extracted / the Ok payload, as bytes
ExtractedBytes(ret) == IF ret.extracted.some THEN ret.extracted.val ELSE <<>>

NoCall == [tag |-> "NoCall"]

(***************************************************************************)
(* UTF-8 by its definition: a lead byte's bit pattern gives the length,    *)
(* the payload bits give the code point, and an encoding is well formed    *)
(* when it is the shortest one of a Unicode scalar value.                  *)
(***************************************************************************)
LeadLength(b) ==
    IF b < \h80 THEN 1
    ELSE IF b >= \hC0 /\ b <= \hDF THEN 2
    ELSE IF b >= \hE0 /\ b <= \hEF THEN 3
    ELSE IF b >= \hF0 /\ b <= \hF7 THEN 4
    ELSE 0

Payload(b) == b - \h80

CodePoint(s) ==
    IF Len(s) = 1 THEN s[1]
    ELSE IF Len(s) = 2 THEN (s[1] - \hC0) * 64 + Payload(s[2])
    ELSE IF Len(s) = 3 THEN (s[1] - \hE0) * 4096 + Payload(s[2]) * 64 + Payload(s[3])
    ELSE (s[1] - \hF0) * 262144 + Payload(s[2]) * 4096 + Payload(s[3]) * 64 + Payload(s[4])

SmallestOfLength(n) ==
    IF n = 1 THEN 0 ELSE IF n = 2 THEN \h80 ELSE IF n = 3 THEN \h800 ELSE \h10000

IsScalarEncoding(s) ==
    /\ Len(s) >= 1
    /\ LeadLength(s[1]) = Len(s)
    /\ \A i \in 2..Len(s) : s[i] >= \h80 /\ s[i] <= \hBF
    /\ CodePoint(s) >= SmallestOfLength(Len(s))
    /\ CodePoint(s) <= \h10FFFF
    /\ ~(CodePoint(s) >= \hD800 /\ CodePoint(s) <= \hDFFF)

RECURSIVE IsValidUtf8(_)
IsValidUtf8(s) ==
    \/ s = <<>>
    \/ \E n \in 1..Min(4, Len(s)) :
          /\ IsScalarEncoding(SubSeq(s, 1, n))
          /\ IsValidUtf8(SubSeq(s, n + 1, Len(s)))

\* The code points whose encodings start with a given prefix form a block
\* aligned to a power of 64, and the bounds of the scalar values (80, 800,
\* D800, E000, 10000, 110000) fall on such blocks' borders or inside a
\* one-byte prefix's block with one end of it well formed: completing with
\* all-80 or all-BF finds a well-formed completion whenever there is one.
Paddings == SeqsUpTo({\h80, \hBF}, 3) \ {<<>>}

\* s is the beginning of a well-formed encoding that needs more bytes
IsTruncated(s) ==
    /\ Len(s) >= 1
    /\ Len(s) <= 3
    /\ \E t \in Paddings : IsScalarEncoding(s \o t)

\* s begins with bytes that no valid UTF-8 text begins with
IsMalformedStart(s) ==
    /\ s # <<>>
    /\ ~IsTruncated(s)
    /\ \A n \in 1..Min(4, Len(s)) : ~IsScalarEncoding(SubSeq(s, 1, n))

\* the malformed sequence at the start of s: the longest beginning of a
\* well-formed encoding found there, one byte when there is none
MalformedRunLen(s) ==
    CHOOSE k \in 1..Min(3, Len(s)) :
        /\ k = 1 \/ IsTruncated(SubSeq(s, 1, k))
        /\ \A j \in (k + 1)..Min(3, Len(s)) : ~IsTruncated(SubSeq(s, 1, j))

LongestValidPrefix(s) ==
    CHOOSE p \in {SubSeq(s, 1, k) : k \in 0..Len(s)} :
        /\ IsValidUtf8(p)
        /\ \A k \in (Len(p) + 1)..Len(s) : ~IsValidUtf8(SubSeq(s, 1, k))

(***************************************************************************)
(* The streaming protocol: the caller appends received bytes, calls        *)
(* extract_utf8, and may advance the buffer past bytes it gives up on.     *)
(***************************************************************************)
Init ==
    /\ src = <<>>
    /\ op = "new"
    /\ pre = <<>>
    /\ res = NoCall
    /\ target = <<>>
    /\ fed = 0
    /\ emitted = <<>>
    /\ erred = FALSE
    /\ cuts = <<>>
    /\ pc = "idle"

AppendByte(b) ==
    /\ Len(src) < MaxLen
    /\ src' = Append(src, b)
    /\ op' = "append"
    /\ pre' = src
    /\ res' = NoCall
    /\ UNCHANGED <<feed, pc>>

Call ==
    LET r == extract_utf8(src)
    IN  /\ src' = r.src
        /\ res' = r.ret
        /\ op' = "extract"
        /\ pre' = src

Extract ==
    /\ Call
    /\ UNCHANGED <<feed, pc>>

Skip(n) ==
    /\ n <= Len(src)
    /\ src' = SubSeq(src, n + 1, Len(src))
    /\ op' = "skip"
    /\ pre' = src
    /\ res' = NoCall
    /\ UNCHANGED <<feed, pc>>

Next ==
    \/ \E b \in ByteSet : AppendByte(b)
    \/ Extract
    \/ \E n \in 1..MaxLen : Skip(n)

Spec == Init /\ [][Next]_vars

(***************************************************************************)
(* Resumable feed: a valid UTF-8 text arrives in pieces cut at arbitrary   *)
(* byte offsets; the caller appends each piece and calls extract_utf8.     *)
(***************************************************************************)
ValidTexts == {s \in SeqsUpTo(ByteSet, MaxLen) : IsValidUtf8(s)}

InitFeed ==
    /\ src = <<>>
    /\ op = "new"
    /\ pre = <<>>
    /\ res = NoCall
    /\ target \in ValidTexts
    /\ fed = 0
    /\ emitted = <<>>
    /\ cuts = <<>>
    /\ erred = FALSE
    /\ pc = "idle"

FeedAppend(n) ==
    /\ fed + n <= Len(target)
    /\ src' = src \o SubSeq(target, fed + 1, fed + n)
    /\ fed' = fed + n
    /\ op' = "append"
    /\ pre' = src
    /\ res' = NoCall
    /\ UNCHANGED <<target, emitted, cuts, erred, pc>>

FeedExtract ==
    /\ Len(cuts) < MaxCalls
    /\ Call
    /\ emitted' = emitted \o ExtractedBytes(res')
    /\ erred' = (erred \/ res'.tag = "Err")
    /\ cuts' = Append(cuts, fed)
    /\ UNCHANGED <<target, fed, pc>>

NextFeed ==
    \/ \E n \in 0..MaxLen : FeedAppend(n)
    \/ FeedExtract

SpecFeed == InitFeed /\ [][NextFeed]_vars

(***************************************************************************)
(* Skip loop: with no further appends the caller repeats "call             *)
(* extract_utf8; on Err advance the buffer by error_len" until a call      *)
(* returns Ok.  BytesMut::advance panics when asked to go past the end.    *)
(***************************************************************************)
InitLoop ==
    /\ src \in SeqsUpTo(ByteSet, MaxLen)
    /\ op = "new"
    /\ pre = <<>>
    /\ res = NoCall
    /\ target = <<>>
    /\ fed = 0
    /\ emitted = <<>>
    /\ cuts = <<>>
    /\ erred = FALSE
    /\ pc = "call"

LoopCall ==
    /\ pc = "call"
    /\ Call
    /\ erred' = (erred \/ res'.tag = "Err")
    /\ pc' = IF res'.tag = "Err" THEN "skip" ELSE "done"
    /\ UNCHANGED <<target, fed, emitted, cuts>>

LoopSkip ==
    /\ pc = "skip"
    /\ IF res.error_len <= Len(src)
       THEN /\ src' = SubSeq(src, res.error_len + 1, Len(src))
            /\ pc' = "call"
       ELSE /\ src' = src
            /\ pc' = "panic"
    /\ op' = "skip"
    /\ pre' = src
    /\ res' = NoCall
    /\ UNCHANGED <<target, fed, emitted, cuts, erred>>

NextLoop ==
    \/ LoopCall
    \/ LoopSkip

SpecLoop == InitLoop /\ [][NextLoop]_vars /\ WF_vars(NextLoop)

Called == op = "extract"

(***************************************************************************)
(* C1: every chunk extract_utf8 hands out, in Ok or inside the error, is   *)
(* valid UTF-8 from its first byte to its last, whatever appends, calls    *)
(* and skips came before.                                                  *)
(***************************************************************************)
C1_ChunksAreValidUtf8 ==
    Called /\ res.extracted.some => IsValidUtf8(res.extracted.val)

\* a chunk ending in a multi-byte code point, cut off a buffer that goes on
C1_Witness ==
    /\ Called
    /\ res.extracted.some
    /\ Len(res.extracted.val) >= 3
    /\ res.extracted.val[Len(res.extracted.val)] >= \h80
    /\ src # <<>>

(***************************************************************************)
(* C2: the extracted bytes followed by the bytes left in the buffer are    *)
(* the buffer's bytes before the call, for Ok and for Err.                 *)
(***************************************************************************)
C2_NoByteLostOrDuplicated ==
    Called => ExtractedBytes(res) \o src = pre

C2_Witness ==
    /\ Called
    /\ res.tag = "Err"
    /\ res.extracted.some
    /\ Len(src) >= 2

(***************************************************************************)
(* C3: a buffer that is valid UTF-8 as a whole comes back as one chunk     *)
(* with the same bytes, and the buffer is left empty.                      *)
(***************************************************************************)
C3_FullyValidDrained ==
    Called /\ IsValidUtf8(pre) => res = RetOk(Some(pre)) /\ src = <<>>

C3_Witness ==
    /\ Called
    /\ IsValidUtf8(pre)
    /\ Len(pre) = 4
    /\ pre[1] >= \hF0
    /\ src = <<>>

(***************************************************************************)
(* C4: extract_utf8 on an empty buffer returns Ok(None) and leaves the     *)
(* buffer empty.                                                           *)
(***************************************************************************)
C4_EmptyBufferGivesNone ==
    Called /\ pre = <<>> => res = RetOk(None) /\ src = <<>>

(***************************************************************************)
(* C5: a buffer made of valid text (possibly none) followed by the         *)
(* beginning of a well-formed multi-byte encoding that the end of the      *)
(* buffer cuts short gives Ok with the valid text (None when there is      *)
(* none), and the buffer keeps exactly the cut-short bytes.                *)
(***************************************************************************)
C5_IncompleteTailIsOk ==
    Called =>
        \A k \in 0..(Len(pre) - 1) :
            LET text == SubSeq(pre, 1, k)
                tail == SubSeq(pre, k + 1, Len(pre))
            IN  IsValidUtf8(text) /\ IsTruncated(tail) =>
                    /\ res = RetOk(IF k = 0 THEN None ELSE Some(text))
                    /\ src = tail

\* valid text, then three of the four bytes of an encoding
C5_Witness ==
    /\ Called
    /\ Len(pre) = 4
    /\ IsValidUtf8(SubSeq(pre, 1, 1))
    /\ IsTruncated(SubSeq(pre, 2, 4))
    /\ Len(src) = 3

(***************************************************************************)
(* C7: a buffer that starts with a malformed sequence, with no valid byte  *)
(* before it, gives Err with no extracted prefix and error_len the length  *)
(* of the malformed sequence, and the buffer is left as it was.            *)
(***************************************************************************)
C7_MalformedAtStart ==
    Called /\ IsMalformedStart(pre) =>
        /\ res = RetErr(None, MalformedRunLen(pre))
        /\ src = pre

\* a malformed sequence of more than one byte
C7_Witness ==
    /\ Called
    /\ IsMalformedStart(pre)
    /\ res.tag = "Err"
    /\ res.error_len = 3
    /\ src = pre

(***************************************************************************)
(* C8: non-empty valid text followed by a malformed sequence gives Err     *)
(* carrying exactly the valid text and the length of the malformed         *)
(* sequence; the buffer keeps everything after the text, malformed bytes   *)
(* first.                                                                  *)
(***************************************************************************)
C8_TextThenMalformed ==
    Called =>
        \A k \in 1..(Len(pre) - 1) :
            LET text == SubSeq(pre, 1, k)
                rest == SubSeq(pre, k + 1, Len(pre))
            IN  IsValidUtf8(text) /\ IsMalformedStart(rest) =>
                    /\ res = RetErr(Some(text), MalformedRunLen(rest))
                    /\ src = rest

\* multi-byte text, then a bare continuation byte
C8_Witness ==
    /\ Called
    /\ Len(pre) = 4
    /\ IsValidUtf8(SubSeq(pre, 1, 3))
    /\ pre[1] >= \hE0
    /\ pre[4] = \h80
    /\ res.tag = "Err"
    /\ src = <<\h80>>

(***************************************************************************)
(* C9: after a call that returns Ok the buffer is empty or holds only the  *)
(* cut-short beginning (1 to 3 bytes) of a well-formed encoding, and what  *)
(* was extracted is the longest valid UTF-8 prefix of the buffer.          *)
(***************************************************************************)
C9_OkLeavesOnlyIncompleteTail ==
    Called /\ res.tag = "Ok" =>
        /\ src = <<>> \/ IsTruncated(src)
        /\ ExtractedBytes(res) = LongestValidPrefix(pre)

C9_Witness ==
    /\ Called
    /\ res.tag = "Ok"
    /\ res.extracted.some
    /\ Len(src) = 2
    /\ IsTruncated(src)

(***************************************************************************)
(* C6: a valid UTF-8 text fed in pieces cut at any byte offsets, inside a  *)
(* code point or not, with extract_utf8 called after the appends, never    *)
(* yields Err; once all of it is fed and extract_utf8 is called, the       *)
(* chunks extracted so far concatenate to the text and the buffer is       *)
(* empty.                                                                  *)
(***************************************************************************)
C6_Resumable ==
    /\ ~erred
    /\ Called /\ fed = Len(target) => emitted = target /\ src = <<>>

\* two appends and two calls, the first cut inside a multi-byte code point
C6_Witness ==
    /\ Called
    /\ Len(cuts) = 2
    /\ cuts[1] >= 1
    /\ cuts[1] < Len(target)
    /\ ~IsValidUtf8(SubSeq(target, 1, cuts[1]))
    /\ cuts[2] = Len(target)
    /\ emitted = target

(***************************************************************************)
(* C10: an Err carries 1 <= error_len <= 3 and no more than the bytes left *)
(* in the buffer, so each skip of error_len bytes shrinks the buffer, and  *)
(* the skip loop ends with an Ok and a buffer that is empty or holds only  *)
(* an incomplete trailing sequence.                                        *)
(***************************************************************************)
C10_SkipLoopTerminates ==
    /\ [](Called /\ res.tag = "Err" =>
            res.error_len >= 1 /\ res.error_len <= 3 /\ res.error_len <= Len(src))
    /\ [][pc = "skip" => Len(src') < Len(src)]_vars
    /\ <>(pc = "done")
    /\ [](pc = "done" => res.tag = "Ok" /\ (src = <<>> \/ IsTruncated(src)))

\* the loop ended after skipping, with an incomplete sequence left
C10_Witness ==
    /\ pc = "done"
    /\ erred
    /\ res.tag = "Ok"
    /\ IsTruncated(src)

====
